---- MODULE Spec2Model ----
(***************************************************************************)
(* Trainer factories of reagent/workflow_utils/transitional.py and the     *)
(* TrainingDataPage record of ml/rl/training/training_data_page.py.        *)
(*                                                                         *)
(* Every network object the factories construct lives in `heap`; a         *)
(* reference is its index in the heap and 0 is Python's None.  Each        *)
(* factory is a straight-line program; `pc` is its position.  `calls`      *)
(* records, in order, the calls made on the external framework.            *)
(***************************************************************************)
EXTENDS Integers, Sequences, FiniteSets, TLC

\* Bounds of the explored inputs.
MaxMetrics == 2
MaxActions == 2
MaxDim == 2
MaxWorldModels == 3
MaxLen == 2

VARIABLES
    entry,                  \* the entry point that was called
    pc,                     \* position inside it
    model,                  \* DiscreteActionModelParameters / ContinuousActionModelParameters
    state_dim,              \* get_num_output_features(state normalization parameters)
    action_norm_dim,        \* get_num_output_features(action_normalization_parameters)
    use_gpu,
    use_all_avail_gpus,
    cuda_is_available,      \* torch.cuda.is_available()
    metrics_to_score_arg,   \* metrics_to_score as the caller passed it
    metrics_to_score,       \* the local name, rebound by line 45
    params,                 \* CEMParameters
    env,                    \* OpenAIGymEnvironment
    page_args,              \* arguments of TrainingDataPage.__init__
    heap,
    calls,
    q_network,
    q_network_target,
    reward_network,
    q_network_cpe,
    q_network_cpe_target,
    mdnrnn_net,
    world_model_trainers,
    cem_planner_network,
    page,                   \* the TrainingDataPage object's slots
    trainer,                \* the value returned
    error                   \* the exception raised, "" when none

inputs == <<entry, model, state_dim, action_norm_dim, use_gpu, use_all_avail_gpus,
            cuda_is_available, metrics_to_score_arg, params, env, page_args>>
nets == <<q_network, q_network_target, reward_network, q_network_cpe,
          q_network_cpe_target>>
cem_locals == <<mdnrnn_net, world_model_trainers, cem_planner_network>>
vars == <<inputs, pc, metrics_to_score, heap, calls, nets, cem_locals, page,
          trainer, error>>

-----------------------------------------------------------------------------
(* Python values *)

NoneRef == 0

PyNone == [none |-> TRUE, val |-> <<>>]

Some(v) == [none |-> FALSE, val |-> v]

\* `x or []` for x a list or None: None and the empty list are both falsy.
OrEmptyList(x) == IF x.none \/ x.val = <<>> THEN Some(<<>>) ELSE x

\* l[1:-1]
Middle(l) == SubSeq(l, 2, Len(l) - 1)

\* l[:-1]
ButLast(l) == SubSeq(l, 1, Len(l) - 1)

-----------------------------------------------------------------------------
(* The external framework: network objects *)

Net(cls, sdim, adim, sizes, activations, ctor_use_gpu) ==
    [cls |-> cls, state_dim |-> sdim, action_dim |-> adim, sizes |-> sizes,
     activations |-> activations, ctor_use_gpu |-> ctor_use_gpu,
     gpu |-> FALSE, target_of |-> NoneRef, module |-> NoneRef]

\* net.cuda(): moves the module in place and returns it
Cuda(h, r) == [h EXCEPT ![r].gpu = TRUE]

\* net.get_target_network(): a deep copy of the network as it is now
TargetNetwork(h, r) == [h[r] EXCEPT !.target_of = r]

\* net.get_distributed_data_parallel_model(): a wrapper object around the network
DistributedDataParallel(h, r) ==
    [h[r] EXCEPT !.cls = "DistributedDataParallel", !.module = r,
                 !.target_of = NoneRef]

Call(op, r) == <<op, r>>

NoTrainer == [cls |-> "None"]

-----------------------------------------------------------------------------
(* Inputs *)

MetricLists == UNION {[1..n -> {"m"}] : n \in 0..MaxMetrics}

MetricsInputs == {PyNone} \cup {Some(l) : l \in MetricLists}

ActionLists == UNION {[1..n -> {"a"}] : n \in 1..MaxActions}

TrainingParameters ==
    { [layers |-> <<-1, -1>>, activations |-> <<"linear">>],
      [layers |-> <<-1, 8, -1>>, activations |-> <<"relu", "linear">>] }

NoModel ==
    [rainbow |-> [quantile |-> FALSE, categorical |-> FALSE,
                  dueling_architecture |-> FALSE],
     evaluation |-> [calc_cpe_in_training |-> FALSE],
     training |-> [layers |-> <<-1, -1>>, activations |-> <<"linear">>],
     actions |-> <<>>]

NoParams == [num_world_models |-> 0, mdnrnn |-> [not_terminal_loss_weight |-> 0]]

NoEnv == [action_type |-> "DISCRETE_ACTION", state_dim |-> 0, action_dim |-> 0]

NoPlanner == [constructed |-> FALSE, mem_net_list |-> <<>>,
              discrete_action |-> FALSE, terminal_effective |-> FALSE,
              bounds_given |-> FALSE]

PageFields == {"states", "actions", "rewards", "next_states", "next_actions",
               "possible_next_actions", "reward_timelines", "ds", "not_terminals"}

NoPageArgs == [f \in PageFields |-> PyNone]

NoPage == [constructed |-> FALSE, slots |-> NoPageArgs]

InitLocals ==
    /\ heap = <<>>
    /\ calls = <<>>
    /\ q_network = NoneRef
    /\ q_network_target = NoneRef
    /\ reward_network = NoneRef
    /\ q_network_cpe = NoneRef
    /\ q_network_cpe_target = NoneRef
    /\ mdnrnn_net = NoneRef
    /\ world_model_trainers = <<>>
    /\ cem_planner_network = NoPlanner
    /\ page = NoPage
    /\ trainer = NoTrainer
    /\ error = ""

InitDqn ==
    /\ entry = "create_dqn_trainer_from_params"
    /\ pc = "dqn_q_network"
    /\ model \in [rainbow : [quantile : BOOLEAN, categorical : BOOLEAN,
                             dueling_architecture : BOOLEAN],
                  evaluation : [calc_cpe_in_training : BOOLEAN],
                  training : TrainingParameters,
                  actions : ActionLists]
    /\ state_dim \in 1..MaxDim
    /\ action_norm_dim = 0
    /\ use_gpu \in BOOLEAN
    /\ use_all_avail_gpus \in BOOLEAN
    /\ cuda_is_available \in BOOLEAN
    /\ metrics_to_score_arg \in MetricsInputs
    /\ metrics_to_score = metrics_to_score_arg
    /\ params = NoParams
    /\ env = NoEnv
    /\ page_args = NoPageArgs
    /\ InitLocals

InitParametric ==
    /\ entry = "create_parametric_dqn_trainer_from_params"
    /\ pc = "param_networks"
    /\ model \in [rainbow : {NoModel.rainbow}, evaluation : {NoModel.evaluation},
                  training : TrainingParameters, actions : {<<>>}]
    /\ state_dim \in 1..MaxDim
    /\ action_norm_dim \in 1..MaxDim
    /\ use_gpu \in BOOLEAN
    /\ use_all_avail_gpus \in BOOLEAN
    /\ cuda_is_available \in BOOLEAN
    /\ metrics_to_score_arg = PyNone
    /\ metrics_to_score = metrics_to_score_arg
    /\ params = NoParams
    /\ env = NoEnv
    /\ page_args = NoPageArgs
    /\ InitLocals

EnvInputs == [action_type : {"DISCRETE_ACTION", "CONTINUOUS_ACTION"},
              state_dim : 1..MaxDim, action_dim : 1..MaxDim]

InitWorldModel ==
    /\ entry \in {"get_cem_trainer", "create_world_model_trainer"}
    /\ pc = IF entry = "get_cem_trainer" THEN "cem_loop" ELSE "wm_network"
    /\ model = NoModel
    /\ state_dim = 0
    /\ action_norm_dim = 0
    /\ use_gpu \in BOOLEAN
    /\ use_all_avail_gpus = FALSE
    /\ cuda_is_available \in BOOLEAN
    /\ metrics_to_score_arg = PyNone
    /\ metrics_to_score = metrics_to_score_arg
    /\ params \in [num_world_models : IF entry = "get_cem_trainer"
                                      THEN 0..MaxWorldModels ELSE {0},
                   mdnrnn : [not_terminal_loss_weight : {-1, 0, 1}]]
    /\ env \in EnvInputs
    /\ page_args = NoPageArgs
    /\ InitLocals

\* Per-example sequences of a batch, of every length up to MaxLen
Batches == {[i \in 1..n |-> i] : n \in 0..MaxLen}

PerExampleFields == PageFields \ {"ds", "not_terminals"}

InitPage ==
    /\ entry = "TrainingDataPage"
    /\ pc = "page_init"
    /\ model = NoModel
    /\ state_dim = 0
    /\ action_norm_dim = 0
    /\ use_gpu = FALSE
    /\ use_all_avail_gpus = FALSE
    /\ cuda_is_available = FALSE
    /\ metrics_to_score_arg = PyNone
    /\ metrics_to_score = metrics_to_score_arg
    /\ params = NoParams
    /\ env = NoEnv
    /\ page_args \in {a \in [PageFields -> {PyNone} \cup {Some(b) : b \in Batches}] :
                        /\ \A f \in PerExampleFields : ~a[f].none
                        /\ a["ds"] = Some(<<>>)}
    /\ InitLocals

-----------------------------------------------------------------------------
(* create_dqn_trainer_from_params *)

QuantileDQN(sdim, adim, sizes, activations) ==
    Net("QuantileDQN", sdim, adim, sizes, activations, FALSE)

CategoricalDQN(sdim, adim, sizes, activations, ctor_use_gpu) ==
    Net("CategoricalDQN", sdim, adim, sizes, activations, ctor_use_gpu)

\* DuelingQNetwork(layers, activations): first layer is the input width, last the output
DuelingQNetwork(layers, activations) ==
    Net("DuelingQNetwork", layers[1], layers[Len(layers)], Middle(layers),
        activations, FALSE)

FullyConnectedDQN(sdim, adim, sizes, activations) ==
    Net("FullyConnectedDQN", sdim, adim, sizes, activations, FALSE)

\* Variant of SelectQNetwork: the categorical flag is tested before the quantile flag
SelectQNetwork_CategoricalFirst(m, sdim, gpu_flag) ==
    IF m.rainbow.categorical THEN
        CategoricalDQN(sdim, Len(m.actions), Middle(m.training.layers),
                       ButLast(m.training.activations), gpu_flag)
    ELSE IF m.rainbow.quantile THEN
        QuantileDQN(sdim, Len(m.actions), Middle(m.training.layers),
                    ButLast(m.training.activations))
    ELSE IF m.rainbow.dueling_architecture THEN
        DuelingQNetwork(<<sdim>> \o Middle(m.training.layers) \o <<Len(m.actions)>>,
                        m.training.activations)
    ELSE
        FullyConnectedDQN(sdim, Len(m.actions), Middle(m.training.layers),
                          ButLast(m.training.activations))

\* lines 47-82: the architecture of the primary network, first match wins
SelectQNetwork(m, sdim, gpu_flag) ==
    IF m.rainbow.quantile THEN
        QuantileDQN(sdim, Len(m.actions), Middle(m.training.layers),
                    ButLast(m.training.activations))
    ELSE IF m.rainbow.categorical THEN
        CategoricalDQN(sdim, Len(m.actions), Middle(m.training.layers),
                       ButLast(m.training.activations), gpu_flag)
    ELSE IF m.rainbow.dueling_architecture THEN
        DuelingQNetwork(<<sdim>> \o Middle(m.training.layers) \o <<Len(m.actions)>>,
                        m.training.activations)
    ELSE
        FullyConnectedDQN(sdim, Len(m.actions), Middle(m.training.layers),
                          ButLast(m.training.activations))

\* Variant of NumOutputNodes: the parentheses around the sum are missing
NumOutputNodes_Precedence(metrics, m) == Len(metrics.val) + 1 * Len(m.actions)

\* line 92
NumOutputNodes(metrics, m) == (Len(metrics.val) + 1) * Len(m.actions)

\* lines 84 and 108
GpuRequestedAndAvailable == use_gpu /\ cuda_is_available

\* Variant of DqnWrapCondition: the quantile flag is not consulted
DqnWrapCondition_NoQuantileCheck ==
    /\ use_all_avail_gpus
    /\ ~model.rainbow.categorical

\* lines 114-118
DqnWrapCondition ==
    /\ use_all_avail_gpus
    /\ ~model.rainbow.categorical
    /\ ~model.rainbow.quantile

\* lines 45-82
DqnBuildQNetwork ==
    /\ pc = "dqn_q_network"
    /\ metrics_to_score' = OrEmptyList(metrics_to_score)
    /\ heap' = Append(heap, SelectQNetwork(model, state_dim, use_gpu))
    /\ q_network' = Len(heap) + 1
    /\ calls' = Append(calls, Call("construct", Len(heap) + 1))
    /\ pc' = "dqn_q_cuda"
    /\ UNCHANGED <<inputs, q_network_target, reward_network, q_network_cpe,
                   q_network_cpe_target, cem_locals, page, trainer, error>>

\* lines 84-85
DqnCudaQNetwork ==
    /\ pc = "dqn_q_cuda"
    /\ IF GpuRequestedAndAvailable
       THEN /\ heap' = Cuda(heap, q_network)
            /\ calls' = Append(calls, Call("cuda", q_network))
       ELSE UNCHANGED <<heap, calls>>
    /\ pc' = "dqn_q_target"
    /\ UNCHANGED <<inputs, metrics_to_score, nets, cem_locals, page, trainer, error>>

\* line 87
DqnTargetQNetwork ==
    /\ pc = "dqn_q_target"
    /\ heap' = Append(heap, TargetNetwork(heap, q_network))
    /\ q_network_target' = Len(heap) + 1
    /\ calls' = Append(calls, Call("get_target_network", q_network))
    /\ pc' = "dqn_cpe"
    /\ UNCHANGED <<inputs, metrics_to_score, q_network, reward_network,
                   q_network_cpe, q_network_cpe_target, cem_locals, page,
                   trainer, error>>

\* lines 89-106
DqnBuildCpe ==
    /\ pc = "dqn_cpe"
    /\ IF model.evaluation.calc_cpe_in_training
       THEN LET n == NumOutputNodes(metrics_to_score, model)
                net == FullyConnectedDQN(state_dim, n, Middle(model.training.layers),
                                         ButLast(model.training.activations))
            IN /\ heap' = heap \o <<net, net>>
               /\ reward_network' = Len(heap) + 1
               /\ q_network_cpe' = Len(heap) + 2
               /\ calls' = calls \o <<Call("construct", Len(heap) + 1),
                                      Call("construct", Len(heap) + 2)>>
               /\ pc' = "dqn_cpe_cuda"
       ELSE /\ reward_network' = NoneRef
            /\ q_network_cpe' = NoneRef
            /\ UNCHANGED <<heap, calls>>
            /\ pc' = "dqn_ddp"
    /\ q_network_cpe_target' = NoneRef
    /\ UNCHANGED <<inputs, metrics_to_score, q_network, q_network_target,
                   cem_locals, page, trainer, error>>

\* lines 108-110
DqnCudaCpe ==
    /\ pc = "dqn_cpe_cuda"
    /\ IF GpuRequestedAndAvailable
       THEN /\ heap' = Cuda(Cuda(heap, reward_network), q_network_cpe)
            /\ calls' = calls \o <<Call("cuda", reward_network),
                                   Call("cuda", q_network_cpe)>>
       ELSE UNCHANGED <<heap, calls>>
    /\ pc' = "dqn_cpe_target"
    /\ UNCHANGED <<inputs, metrics_to_score, nets, cem_locals, page, trainer, error>>

\* line 112
DqnTargetCpe ==
    /\ pc = "dqn_cpe_target"
    /\ heap' = Append(heap, TargetNetwork(heap, q_network_cpe))
    /\ q_network_cpe_target' = Len(heap) + 1
    /\ calls' = Append(calls, Call("get_target_network", q_network_cpe))
    /\ pc' = "dqn_ddp"
    /\ UNCHANGED <<inputs, metrics_to_score, q_network, q_network_target,
                   reward_network, q_network_cpe, cem_locals, page, trainer, error>>

\* The references lines 119-129 wrap, in order: those that are not None
DqnWrapped == SelectSeq(<<q_network, reward_network, q_network_cpe>>,
                        LAMBDA r : r # NoneRef)

\* The reference that replaces r once the k wrappers of `ws` are appended to a heap of n
WrapRef(ws, n, r) ==
    IF r = NoneRef THEN NoneRef
    ELSE n + CHOOSE k \in 1..Len(ws) : ws[k] = r

\* lines 114-129
DqnWrap ==
    /\ pc = "dqn_ddp"
    /\ IF DqnWrapCondition
       THEN LET ws == DqnWrapped
            IN /\ heap' = heap \o [k \in 1..Len(ws) |-> DistributedDataParallel(heap, ws[k])]
               /\ calls' = calls \o [k \in 1..Len(ws) |->
                                        Call("get_distributed_data_parallel_model", ws[k])]
               /\ q_network' = WrapRef(ws, Len(heap), q_network)
               /\ reward_network' = WrapRef(ws, Len(heap), reward_network)
               /\ q_network_cpe' = WrapRef(ws, Len(heap), q_network_cpe)
       ELSE UNCHANGED <<heap, calls, q_network, reward_network, q_network_cpe>>
    /\ pc' = "dqn_trainer"
    /\ UNCHANGED <<inputs, metrics_to_score, q_network_target, q_network_cpe_target,
                   cem_locals, page, trainer, error>>

\* Variant of QRDQNTrainer: the auxiliary network is not passed on
QRDQNTrainer_NoCpe ==
    [cls |-> "QRDQNTrainer",
     nets |-> [q_network |-> q_network, q_network_target |-> q_network_target,
               reward_network |-> reward_network, q_network_cpe |-> NoneRef,
               q_network_cpe_target |-> q_network_cpe_target],
     use_gpu |-> use_gpu, metrics_to_score |-> metrics_to_score.val]

\* The network arguments each trainer constructor is given (lines 136-170)
QRDQNTrainer ==
    [cls |-> "QRDQNTrainer",
     nets |-> [q_network |-> q_network, q_network_target |-> q_network_target,
               reward_network |-> reward_network, q_network_cpe |-> q_network_cpe,
               q_network_cpe_target |-> q_network_cpe_target],
     use_gpu |-> use_gpu, metrics_to_score |-> metrics_to_score.val]

C51Trainer ==
    [cls |-> "C51Trainer",
     nets |-> [q_network |-> q_network, q_network_target |-> q_network_target],
     use_gpu |-> use_gpu, metrics_to_score |-> metrics_to_score.val]

DQNTrainer ==
    [cls |-> "DQNTrainer",
     nets |-> [q_network |-> q_network, q_network_target |-> q_network_target,
               reward_network |-> reward_network, q_network_cpe |-> q_network_cpe,
               q_network_cpe_target |-> q_network_cpe_target],
     use_gpu |-> use_gpu, metrics_to_score |-> metrics_to_score.val]

\* Variant of SelectTrainer: the categorical flag is tested before the quantile flag
SelectTrainer_CategoricalFirst ==
    IF model.rainbow.categorical THEN C51Trainer
    ELSE IF model.rainbow.quantile THEN QRDQNTrainer
    ELSE DQNTrainer

\* lines 131, 147, 159: the trainer branch
SelectTrainer ==
    IF model.rainbow.quantile THEN QRDQNTrainer
    ELSE IF model.rainbow.categorical THEN C51Trainer
    ELSE DQNTrainer

\* Variant of DqnAssertionFails: the categorical branch carries no assertion
DqnAssertionFails_QuantileOnly ==
    /\ model.rainbow.quantile
    /\ use_all_avail_gpus

\* lines 132-134 and 148-150: the assertion of the two distributional branches
DqnAssertionFails ==
    /\ model.rainbow.quantile \/ model.rainbow.categorical
    /\ use_all_avail_gpus

\* lines 131-170
DqnMakeTrainer ==
    /\ pc = "dqn_trainer"
    /\ IF DqnAssertionFails
       THEN /\ error' = "AssertionError"
            /\ pc' = "raised"
            /\ UNCHANGED trainer
       ELSE /\ trainer' = SelectTrainer
            /\ pc' = "returned"
            /\ UNCHANGED error
    /\ UNCHANGED <<inputs, metrics_to_score, heap, calls, nets, cem_locals, page>>

-----------------------------------------------------------------------------
(* create_parametric_dqn_trainer_from_params *)

FullyConnectedParametricDQN(sdim, adim, sizes, activations) ==
    Net("FullyConnectedParametricDQN", sdim, adim, sizes, activations, FALSE)

\* lines 180-191
ParamBuildNetworks ==
    /\ pc = "param_networks"
    /\ LET net == FullyConnectedParametricDQN(state_dim, action_norm_dim,
                                              Middle(model.training.layers),
                                              ButLast(model.training.activations))
       IN heap' = heap \o <<net, net>>
    /\ q_network' = Len(heap) + 1
    /\ reward_network' = Len(heap) + 2
    /\ calls' = calls \o <<Call("construct", Len(heap) + 1),
                           Call("construct", Len(heap) + 2)>>
    /\ pc' = "param_target"
    /\ UNCHANGED <<inputs, metrics_to_score, q_network_target, q_network_cpe,
                   q_network_cpe_target, cem_locals, page, trainer, error>>

\* line 192
ParamTarget ==
    /\ pc = "param_target"
    /\ heap' = Append(heap, TargetNetwork(heap, q_network))
    /\ q_network_target' = Len(heap) + 1
    /\ calls' = Append(calls, Call("get_target_network", q_network))
    /\ pc' = "param_cuda"
    /\ UNCHANGED <<inputs, metrics_to_score, q_network, reward_network,
                   q_network_cpe, q_network_cpe_target, cem_locals, page,
                   trainer, error>>

\* lines 194, 275: the guard of the GPU placement outside create_dqn_trainer_from_params
GpuRequested == use_gpu

\* Variant of ParamCuda: the target copy is not moved (line 196 missing)
ParamCuda_TargetLeftOnCpu ==
    /\ pc = "param_cuda"
    /\ IF GpuRequested
       THEN IF cuda_is_available
            THEN /\ heap' = Cuda(Cuda(heap, q_network), reward_network)
                 /\ calls' = calls \o <<Call("cuda", q_network),
                                        Call("cuda", reward_network)>>
                 /\ pc' = "param_ddp"
                 /\ UNCHANGED error
            ELSE /\ calls' = Append(calls, Call("cuda", q_network))
                 /\ error' = "CudaError"
                 /\ pc' = "raised"
                 /\ UNCHANGED heap
       ELSE /\ pc' = "param_ddp"
            /\ UNCHANGED <<heap, calls, error>>
    /\ UNCHANGED <<inputs, metrics_to_score, nets, cem_locals, page, trainer>>

\* lines 194-197; .cuda() raises when the framework has no GPU
ParamCuda ==
    /\ pc = "param_cuda"
    /\ IF GpuRequested
       THEN IF cuda_is_available
            THEN /\ heap' = Cuda(Cuda(Cuda(heap, q_network), q_network_target),
                                 reward_network)
                 /\ calls' = calls \o <<Call("cuda", q_network),
                                        Call("cuda", q_network_target),
                                        Call("cuda", reward_network)>>
                 /\ pc' = "param_ddp"
                 /\ UNCHANGED error
            ELSE /\ calls' = Append(calls, Call("cuda", q_network))
                 /\ error' = "CudaError"
                 /\ pc' = "raised"
                 /\ UNCHANGED heap
       ELSE /\ pc' = "param_ddp"
            /\ UNCHANGED <<heap, calls, error>>
    /\ UNCHANGED <<inputs, metrics_to_score, nets, cem_locals, page, trainer>>

\* lines 199-202
ParamWrap ==
    /\ pc = "param_ddp"
    /\ IF use_all_avail_gpus
       THEN /\ heap' = heap \o <<DistributedDataParallel(heap, q_network),
                                 DistributedDataParallel(heap, q_network_target),
                                 DistributedDataParallel(heap, reward_network)>>
            /\ calls' = calls \o
                   <<Call("get_distributed_data_parallel_model", q_network),
                     Call("get_distributed_data_parallel_model", q_network_target),
                     Call("get_distributed_data_parallel_model", reward_network)>>
            /\ q_network' = Len(heap) + 1
            /\ q_network_target' = Len(heap) + 2
            /\ reward_network' = Len(heap) + 3
       ELSE UNCHANGED <<heap, calls, q_network, q_network_target, reward_network>>
    /\ pc' = "param_trainer"
    /\ UNCHANGED <<inputs, metrics_to_score, q_network_cpe, q_network_cpe_target,
                   cem_locals, page, trainer, error>>

\* lines 216-223
ParametricDQNTrainer ==
    [cls |-> "ParametricDQNTrainer",
     nets |-> [q_network |-> q_network, q_network_target |-> q_network_target,
               reward_network |-> reward_network],
     use_gpu |-> use_gpu]

\* lines 205-223
ParamMakeTrainer ==
    /\ pc = "param_trainer"
    /\ trainer' = ParametricDQNTrainer
    /\ pc' = "returned"
    /\ UNCHANGED <<inputs, metrics_to_score, heap, calls, nets, cem_locals, page,
                   error>>

-----------------------------------------------------------------------------
(* get_cem_trainer and create_world_model_trainer *)

MemoryNetwork(sdim, adim) == Net("MemoryNetwork", sdim, adim, <<>>, <<>>, FALSE)

\* lines 230-233: the comprehension builds one trainer per requested world model
CemLoop ==
    /\ pc = "cem_loop"
    /\ pc' = IF Len(world_model_trainers) < params.num_world_models
             THEN "wm_network" ELSE "cem_planner"
    /\ UNCHANGED <<inputs, metrics_to_score, heap, calls, nets, cem_locals, page,
                   trainer, error>>

\* Variant of WmBuildNetwork: one network object is built once and reused
WmBuildNetwork_Shared ==
    /\ pc = "wm_network"
    /\ IF heap = <<>>
       THEN /\ heap' = Append(heap, MemoryNetwork(env.state_dim, env.action_dim))
            /\ calls' = Append(calls, Call("construct", Len(heap) + 1))
       ELSE UNCHANGED <<heap, calls>>
    /\ mdnrnn_net' = 1
    /\ pc' = "wm_cuda"
    /\ UNCHANGED <<inputs, metrics_to_score, nets, world_model_trainers,
                   cem_planner_network, page, trainer, error>>

\* lines 268-274
WmBuildNetwork ==
    /\ pc = "wm_network"
    /\ heap' = Append(heap, MemoryNetwork(env.state_dim, env.action_dim))
    /\ mdnrnn_net' = Len(heap) + 1
    /\ calls' = Append(calls, Call("construct", Len(heap) + 1))
    /\ pc' = "wm_cuda"
    /\ UNCHANGED <<inputs, metrics_to_score, nets, world_model_trainers,
                   cem_planner_network, page, trainer, error>>

\* lines 275-276; .cuda() raises when the framework has no GPU
WmCuda ==
    /\ pc = "wm_cuda"
    /\ IF GpuRequested
       THEN IF cuda_is_available
            THEN /\ heap' = Cuda(heap, mdnrnn_net)
                 /\ calls' = Append(calls, Call("cuda", mdnrnn_net))
                 /\ pc' = "wm_trainer"
                 /\ UNCHANGED error
            ELSE /\ calls' = Append(calls, Call("cuda", mdnrnn_net))
                 /\ error' = "CudaError"
                 /\ pc' = "raised"
                 /\ UNCHANGED heap
       ELSE /\ pc' = "wm_trainer"
            /\ UNCHANGED <<heap, calls, error>>
    /\ UNCHANGED <<inputs, metrics_to_score, nets, cem_locals, page, trainer>>

\* line 277
MDNRNNTrainer(net) == [cls |-> "MDNRNNTrainer", mdnrnn |-> net]

\* lines 277-278, and the comprehension of lines 230-233 collecting the result
WmMakeTrainer ==
    /\ pc = "wm_trainer"
    /\ IF entry = "get_cem_trainer"
       THEN /\ world_model_trainers' =
                   Append(world_model_trainers, MDNRNNTrainer(mdnrnn_net))
            /\ pc' = "cem_loop"
            /\ UNCHANGED trainer
       ELSE /\ trainer' = MDNRNNTrainer(mdnrnn_net)
            /\ pc' = "returned"
            /\ UNCHANGED world_model_trainers
    /\ UNCHANGED <<inputs, metrics_to_score, heap, calls, nets, mdnrnn_net,
                   cem_planner_network, page, error>>

\* line 234
WorldModelNets(trainers) == [k \in 1..Len(trainers) |-> trainers[k].mdnrnn]

\* lines 234-260
CEMPlannerNetwork ==
    LET discrete_action == env.action_type = "DISCRETE_ACTION"
    IN [constructed |-> TRUE,
        mem_net_list |-> WorldModelNets(world_model_trainers),
        discrete_action |-> discrete_action,
        terminal_effective |-> params.mdnrnn.not_terminal_loss_weight > 0,
        bounds_given |-> ~discrete_action]

\* lines 234-260
CemBuildPlanner ==
    /\ pc = "cem_planner"
    /\ cem_planner_network' = CEMPlannerNetwork
    /\ calls' = Append(calls, Call("construct_planner", NoneRef))
    /\ pc' = "cem_trainer"
    /\ UNCHANGED <<inputs, metrics_to_score, heap, nets, mdnrnn_net,
                   world_model_trainers, page, trainer, error>>

\* line 261
CEMTrainer ==
    [cls |-> "CEMTrainer", cem_planner_network |-> cem_planner_network,
     world_model_trainers |-> world_model_trainers, use_gpu |-> use_gpu]

\* lines 261-262
CemMakeTrainer ==
    /\ pc = "cem_trainer"
    /\ trainer' = CEMTrainer
    /\ pc' = "returned"
    /\ UNCHANGED <<inputs, metrics_to_score, heap, calls, nets, cem_locals, page,
                   error>>

-----------------------------------------------------------------------------
(* TrainingDataPage.__init__ *)

\* Variant of PageSlots: next_actions is assigned from actions
PageSlots_Swapped(args) ==
    [f \in PageFields |-> IF f = "next_actions" THEN args["actions"] ELSE args[f]]

\* lines 29-37: every argument is stored in its slot; nothing is checked
PageSlots(args) == [f \in PageFields |-> args[f]]

PageInit ==
    /\ pc = "page_init"
    /\ page' = [constructed |-> TRUE, slots |-> PageSlots(page_args)]
    /\ pc' = "returned"
    /\ UNCHANGED <<inputs, metrics_to_score, heap, calls, nets, cem_locals,
                   trainer, error>>

-----------------------------------------------------------------------------

Init == InitDqn \/ InitParametric \/ InitWorldModel \/ InitPage

Next ==
    \/ DqnBuildQNetwork
    \/ DqnCudaQNetwork
    \/ DqnTargetQNetwork
    \/ DqnBuildCpe
    \/ DqnCudaCpe
    \/ DqnTargetCpe
    \/ DqnWrap
    \/ DqnMakeTrainer
    \/ ParamBuildNetworks
    \/ ParamTarget
    \/ ParamCuda
    \/ ParamWrap
    \/ ParamMakeTrainer
    \/ CemLoop
    \/ WmBuildNetwork
    \/ WmCuda
    \/ WmMakeTrainer
    \/ CemBuildPlanner
    \/ CemMakeTrainer
    \/ PageInit

Spec == Init /\ [][Next]_vars

-----------------------------------------------------------------------------
(* Vocabulary of the properties *)

IsDqn == entry = "create_dqn_trainer_from_params"

IsParametric == entry = "create_parametric_dqn_trainer_from_params"

IsCem == entry = "get_cem_trainer"

IsPage == entry = "TrainingDataPage"

Terminated == pc \in {"returned", "raised"}

IsWrapper(r) == r # NoneRef /\ heap[r].cls = "DistributedDataParallel"

\* The network behind a reference: the wrapped module of a wrapper, else the object itself
Unwrap(r) == IF IsWrapper(r) THEN heap[r].module ELSE r

\* Number of metrics the caller asked to score; an omitted list counts as none
MetricsCount ==
    IF metrics_to_score_arg.none THEN 0 ELSE Len(metrics_to_score_arg.val)

RejectedCombination ==
    /\ IsDqn
    /\ use_all_avail_gpus
    /\ model.rainbow.categorical \/ model.rainbow.quantile

-----------------------------------------------------------------------------
(* C1 *)

(* C1, as stated: with use_all_avail_gpus and a categorical or quantile     *)
(* architecture the call ends in an assertion error, and when the error is  *)
(* raised no network has been constructed and no GPU placement was made.    *)
C1_RejectedBeforeConstruction ==
    RejectedCombination =>
        /\ Terminated => pc = "raised" /\ error = "AssertionError"
        /\ error = "AssertionError" => heap = <<>> /\ calls = <<>>

(* C1, amended: with use_all_avail_gpus and a categorical or quantile       *)
(* architecture the call ends in an assertion error and returns no trainer; *)
(* the assertion is reached only in the trainer branch, after the primary   *)
(* network, its target and (with calc_cpe_in_training) the reward and       *)
(* auxiliary networks were constructed and placed; no network was wrapped   *)
(* for multi-device execution.  No other configuration raises.              *)
C1_RejectedAfterConstruction ==
    /\ RejectedCombination =>
        /\ trainer = NoTrainer
        /\ Terminated => pc = "raised" /\ error = "AssertionError"
        /\ error = "AssertionError" =>
            /\ q_network # NoneRef
            /\ q_network_target # NoneRef
            /\ heap[q_network_target].target_of = q_network
            /\ heap[q_network].gpu = GpuRequestedAndAvailable
            /\ model.evaluation.calc_cpe_in_training =>
                  /\ reward_network # NoneRef
                  /\ q_network_cpe # NoneRef
                  /\ q_network_cpe_target # NoneRef
            /\ \A r \in DOMAIN heap : ~IsWrapper(r)
    /\ IsDqn /\ (error # "" \/ pc = "raised") =>
          RejectedCombination /\ error = "AssertionError" /\ pc = "raised"

C1_Witness ==
    /\ IsDqn
    /\ pc = "raised"
    /\ error = "AssertionError"
    /\ model.rainbow.categorical
    /\ ~model.rainbow.quantile
    /\ Len(heap) = 5
    /\ heap[q_network].gpu

-----------------------------------------------------------------------------
(* C2 *)

ExpectedArchitecture(quantile, categorical, dueling) ==
    CASE quantile -> "QuantileDQN"
      [] ~quantile /\ categorical -> "CategoricalDQN"
      [] ~quantile /\ ~categorical /\ dueling -> "DuelingQNetwork"
      [] ~quantile /\ ~categorical /\ ~dueling -> "FullyConnectedDQN"

(* C2: for every combination of quantile, categorical and                   *)
(* dueling_architecture exactly one primary network is constructed, and its *)
(* architecture is the first match of quantile, categorical, dueling, plain *)
(* fully-connected.                                                         *)
C2_FirstMatchArchitecture ==
    IsDqn /\ pc # "dqn_q_network" =>
        LET prim == Unwrap(q_network)
            built == {r \in DOMAIN heap :
                        heap[r].module = NoneRef /\ heap[r].target_of = NoneRef}
        IN /\ prim # NoneRef
           /\ heap[prim].cls = ExpectedArchitecture(model.rainbow.quantile,
                                                    model.rainbow.categorical,
                                                    model.rainbow.dueling_architecture)
           /\ built \ {Unwrap(reward_network), Unwrap(q_network_cpe)} = {prim}
           /\ calls[1] = Call("construct", prim)

C2_Witness ==
    /\ IsDqn
    /\ pc = "returned"
    /\ model.rainbow.quantile
    /\ model.rainbow.categorical
    /\ model.rainbow.dueling_architecture
    /\ heap[trainer.nets.q_network].cls = "QuantileDQN"

-----------------------------------------------------------------------------
(* C3 *)

ExpectedTrainer(arch) ==
    CASE arch = "QuantileDQN" -> "QRDQNTrainer"
      [] arch = "CategoricalDQN" -> "C51Trainer"
      [] arch \in {"DuelingQNetwork", "FullyConnectedDQN"} -> "DQNTrainer"

(* C3: whenever a trainer is returned its type agrees with the architecture *)
(* of the primary network it is bound to (quantile - QRDQNTrainer,          *)
(* categorical - C51Trainer, dueling or plain - DQNTrainer), and its target *)
(* network is the one derived from that same primary network.               *)
C3_TrainerMatchesNetwork ==
    IsDqn /\ pc = "returned" =>
        LET prim == Unwrap(trainer.nets.q_network)
            tgt == trainer.nets.q_network_target
        IN /\ prim # NoneRef
           /\ tgt # NoneRef
           /\ trainer.cls = ExpectedTrainer(heap[prim].cls)
           /\ heap[tgt].target_of = prim
           /\ heap[tgt].cls = heap[prim].cls

C3_Witness ==
    /\ IsDqn
    /\ pc = "returned"
    /\ trainer.cls = "QRDQNTrainer"
    /\ model.rainbow.categorical
    /\ heap[trainer.nets.q_network_target].cls = "QuantileDQN"

-----------------------------------------------------------------------------
(* C4 *)

(* C4: with calc_cpe_in_training the reward network and the auxiliary       *)
(* network are both built with output width (M + 1) * A, M the number of    *)
(* metrics to score (0 when the list is omitted) and A the number of        *)
(* actions, and an auxiliary target is derived from the auxiliary network;  *)
(* without it all three are None.  The primary architecture plays no part.  *)
C4_AuxiliaryWidths ==
    IsDqn /\ pc \in {"dqn_ddp", "dqn_trainer", "returned", "raised"} =>
        IF model.evaluation.calc_cpe_in_training
        THEN LET width == (MetricsCount + 1) * Len(model.actions)
                 r == Unwrap(reward_network)
                 c == Unwrap(q_network_cpe)
             IN /\ r # NoneRef /\ c # NoneRef /\ r # c
                /\ q_network_cpe_target # NoneRef
                /\ heap[r].cls = "FullyConnectedDQN"
                /\ heap[c].cls = "FullyConnectedDQN"
                /\ heap[r].action_dim = width
                /\ heap[c].action_dim = width
                /\ heap[q_network_cpe_target].target_of = c
                /\ heap[q_network_cpe_target].action_dim = width
        ELSE /\ reward_network = NoneRef
             /\ q_network_cpe = NoneRef
             /\ q_network_cpe_target = NoneRef

C4_Witness ==
    /\ IsDqn
    /\ pc = "returned"
    /\ model.evaluation.calc_cpe_in_training
    /\ model.rainbow.quantile
    /\ MetricsCount = 1
    /\ Len(model.actions) = 2
    /\ heap[reward_network].action_dim = 4
    /\ heap[q_network_cpe].action_dim = 4

-----------------------------------------------------------------------------
(* C5 *)

(* C5: multi-device wrapping happens exactly when use_all_avail_gpus is set *)
(* and neither quantile nor categorical is: then the primary network and    *)
(* each present reward or auxiliary network is replaced by its wrapper      *)
(* before the trainer is built, an absent one stays absent, and the two     *)
(* targets, derived earlier, stay unwrapped; otherwise nothing is wrapped.  *)
C5_WrappingPolicy ==
    IsDqn /\ pc \in {"dqn_trainer", "returned", "raised"} =>
        IF use_all_avail_gpus /\ ~model.rainbow.quantile /\ ~model.rainbow.categorical
        THEN /\ IsWrapper(q_network)
             /\ ~IsWrapper(heap[q_network].module)
             /\ heap[q_network_target].target_of = heap[q_network].module
             /\ ~IsWrapper(q_network_target)
             /\ IF model.evaluation.calc_cpe_in_training
                THEN /\ IsWrapper(reward_network)
                     /\ IsWrapper(q_network_cpe)
                     /\ ~IsWrapper(q_network_cpe_target)
                     /\ heap[q_network_cpe_target].target_of = heap[q_network_cpe].module
                ELSE /\ reward_network = NoneRef
                     /\ q_network_cpe = NoneRef
                     /\ q_network_cpe_target = NoneRef
             /\ \A r \in DOMAIN heap :
                   IsWrapper(r) =>
                      /\ r \in {q_network, reward_network, q_network_cpe}
                      /\ heap[heap[r].module].target_of = NoneRef
             /\ pc = "returned" =>
                   /\ trainer.nets.q_network = q_network
                   /\ trainer.nets.reward_network = reward_network
                   /\ trainer.nets.q_network_cpe = q_network_cpe
                   /\ trainer.nets.q_network_target = q_network_target
                   /\ trainer.nets.q_network_cpe_target = q_network_cpe_target
        ELSE \A r \in DOMAIN heap : ~IsWrapper(r)

C5_Witness ==
    /\ IsDqn
    /\ pc = "returned"
    /\ use_all_avail_gpus
    /\ model.evaluation.calc_cpe_in_training
    /\ IsWrapper(trainer.nets.q_network)
    /\ IsWrapper(trainer.nets.reward_network)
    /\ IsWrapper(trainer.nets.q_network_cpe)
    /\ ~IsWrapper(trainer.nets.q_network_cpe_target)

-----------------------------------------------------------------------------
(* C6 *)

(* C6, as stated: in create_parametric_dqn_trainer_from_params, when GPU    *)
(* placement is requested, the target is derived from the primary network   *)
(* only after the primary network was moved to GPU.                         *)
C6_PlacementBeforeTarget ==
    IsParametric /\ use_gpu =>
        \A i \in DOMAIN calls :
            calls[i][1] = "get_target_network" =>
                \E j \in 1..(i - 1) : calls[j] = Call("cuda", calls[i][2])

(* C6, amended: the target is derived from the primary network before any  *)
(* GPU placement, from a source still on CPU; when GPU placement is         *)
(* requested the primary network, the target copy and the reward network   *)
(* are then each moved, so from the placement step on the target is on the  *)
(* same device as the primary network it was copied from.                   *)
C6_TargetBeforePlacement ==
    IsParametric =>
        /\ \A i, j \in DOMAIN calls :
              calls[i][1] = "get_target_network" /\ calls[j][1] = "cuda" => i < j
        /\ pc = "param_cuda" =>
              /\ ~heap[q_network].gpu
              /\ ~heap[q_network_target].gpu
              /\ heap[q_network_target].target_of = q_network
        /\ pc \in {"param_ddp", "param_trainer", "returned"} =>
              /\ heap[Unwrap(q_network_target)].target_of = Unwrap(q_network)
              /\ heap[Unwrap(q_network)].gpu = use_gpu
              /\ heap[Unwrap(q_network_target)].gpu = use_gpu
              /\ heap[Unwrap(reward_network)].gpu = use_gpu

C6_Witness ==
    /\ IsParametric
    /\ pc = "returned"
    /\ use_gpu
    /\ calls[3] = Call("get_target_network", 1)
    /\ calls[4] = Call("cuda", 1)
    /\ heap[Unwrap(trainer.nets.q_network_target)].gpu

-----------------------------------------------------------------------------
(* C7 *)

(* C7: in every factory, when use_gpu is set but no GPU is available, no    *)
(* GPU placement is attempted, no error is raised, and the construction     *)
(* runs to a returned trainer.                                              *)
C7_GracefulCpuFallback ==
    ~IsPage /\ use_gpu /\ ~cuda_is_available =>
        /\ \A i \in DOMAIN calls : calls[i][1] # "cuda"
        /\ error = ""
        /\ pc # "raised"
        /\ pc = "returned" => trainer # NoTrainer

-----------------------------------------------------------------------------
(* C8 *)

(* C8: get_cem_trainer with N requested world models returns N world-model  *)
(* trainers, each with its own newly built dynamics network (pairwise       *)
(* distinct), and the one planner network lists exactly those N networks in *)
(* the order of the trainer list given to the CEM trainer.                  *)
C8_EnsembleMembers ==
    IsCem =>
        /\ \A i, j \in DOMAIN world_model_trainers :
              i # j => world_model_trainers[i].mdnrnn # world_model_trainers[j].mdnrnn
        /\ pc = "returned" =>
              LET ts == trainer.world_model_trainers
                  n == params.num_world_models
              IN /\ Len(ts) = n
                 /\ \A i \in 1..n : /\ ts[i].cls = "MDNRNNTrainer"
                                    /\ ts[i].mdnrnn \in DOMAIN heap
                                    /\ heap[ts[i].mdnrnn].cls = "MemoryNetwork"
                 /\ \A i, j \in 1..n : i # j => ts[i].mdnrnn # ts[j].mdnrnn
                 /\ Cardinality({r \in DOMAIN heap : heap[r].cls = "MemoryNetwork"}) = n
                 /\ trainer.cem_planner_network.constructed
                 /\ Len(trainer.cem_planner_network.mem_net_list) = n
                 /\ \A i \in 1..n :
                       trainer.cem_planner_network.mem_net_list[i] = ts[i].mdnrnn

C8_Witness ==
    /\ IsCem
    /\ pc = "returned"
    /\ params.num_world_models = 3
    /\ Len(trainer.world_model_trainers) = 3
    /\ trainer.cem_planner_network.mem_net_list = <<1, 2, 3>>

-----------------------------------------------------------------------------
(* C9 *)

\* The lengths of the per-example sequences that were provided
ProvidedLengths(args) ==
    {Len(args[f].val) : f \in {g \in PageFields \ {"ds"} : ~args[g].none}}

LengthsAgree(args) == Cardinality(ProvidedLengths(args)) <= 1

(* C9, as stated: a TrainingDataPage whose per-example sequences differ in  *)
(* length is rejected with a shape-mismatch error; with matching lengths    *)
(* the construction succeeds and every field equals its argument,           *)
(* not_terminals being None when omitted.                                   *)
C9_MismatchRejected ==
    IsPage /\ Terminated =>
        IF LengthsAgree(page_args)
        THEN /\ pc = "returned"
             /\ page.constructed
             /\ \A f \in PageFields : page.slots[f] = page_args[f]
        ELSE /\ pc = "raised"
             /\ error # ""
             /\ ~page.constructed

(* C9, amended: TrainingDataPage checks no lengths: every construction,     *)
(* with matching or with differing per-example lengths, succeeds and every  *)
(* one of the nine fields equals the argument passed for it, not_terminals  *)
(* being None when omitted.                                                 *)
C9_NoLengthCheck ==
    IsPage =>
        /\ pc # "raised"
        /\ error = ""
        /\ pc = "returned" =>
              /\ page.constructed
              /\ DOMAIN page.slots = PageFields
              /\ \A f \in PageFields : page.slots[f] = page_args[f]
              /\ page_args["not_terminals"].none => page.slots["not_terminals"] = PyNone

C9_Witness ==
    /\ IsPage
    /\ pc = "returned"
    /\ page.constructed
    /\ ~LengthsAgree(page_args)
    /\ Len(page.slots["states"].val) = 2
    /\ Len(page.slots["rewards"].val) = 1
    /\ page.slots["not_terminals"].none

-----------------------------------------------------------------------------
(* C10 *)

(* C10: a C51Trainer is never handed a reward network, an auxiliary network *)
(* or an auxiliary target; a QRDQNTrainer or a DQNTrainer is handed the     *)
(* three the auxiliary-head step produced (all None without                 *)
(* calc_cpe_in_training), so every auxiliary network that was constructed   *)
(* is bound to the returned trainer unless the categorical branch was       *)
(* taken.                                                                   *)
C10_AuxiliaryBinding ==
    IsDqn /\ pc = "returned" =>
        LET aux == {r \in DOMAIN heap : heap[r].module = NoneRef}
                      \ {Unwrap(trainer.nets.q_network), trainer.nets.q_network_target}
        IN IF trainer.cls = "C51Trainer"
           THEN /\ DOMAIN trainer.nets = {"q_network", "q_network_target"}
                /\ model.rainbow.categorical
           ELSE /\ DOMAIN trainer.nets =
                      {"q_network", "q_network_target", "reward_network",
                       "q_network_cpe", "q_network_cpe_target"}
                /\ {Unwrap(trainer.nets.reward_network),
                    Unwrap(trainer.nets.q_network_cpe),
                    trainer.nets.q_network_cpe_target} \ {NoneRef} = aux
                /\ IF model.evaluation.calc_cpe_in_training
                   THEN /\ Cardinality(aux) = 3
                        /\ heap[trainer.nets.q_network_cpe_target].target_of =
                              Unwrap(trainer.nets.q_network_cpe)
                        /\ Unwrap(trainer.nets.reward_network) # NoneRef
                   ELSE /\ trainer.nets.reward_network = NoneRef
                        /\ trainer.nets.q_network_cpe = NoneRef
                        /\ trainer.nets.q_network_cpe_target = NoneRef

C10_Witness ==
    /\ IsDqn
    /\ pc = "returned"
    /\ trainer.cls = "C51Trainer"
    /\ model.evaluation.calc_cpe_in_training
    /\ reward_network # NoneRef
    /\ q_network_cpe_target # NoneRef

====
